---- MODULE Spec2Model ----
(***************************************************************************)
(* The User resource of http-users: the before create/update hook, the     *)
(* availability check, the RESTful /users routes (lib/http-users/user/     *)
(* core.js) and the invite-code confirmation (User.prototype.confirm and   *)
(* its route).  The token routes are known from their API test only.       *)
(* confirm is modelled twice: as one step per call (Spec), and followed     *)
(* through its asynchronous steps with two calls under way (SpecCalls).     *)
(*                                                                         *)
(* A document is a function from field names to values; a field the        *)
(* JavaScript object does not carry is a field outside the DOMAIN.         *)
(*   "_id", "username", "email", "state", "status" : strings               *)
(*   "password"       : [plain, salts]  (a plaintext, or a digest of it)   *)
(*   "password-salt"  : a number (0 models a falsy salt)                   *)
(*   "inviteCode"     : a number (0 models a falsy code)                   *)
(*   "apiTokens"      : a function from token names to secrets             *)
(***************************************************************************)
EXTENDS Integers, Sequences, FiniteSets, TLC

(* ------------------------------ bounds -------------------------------- *)
\* how many codes uuid.v4() hands out in one behaviour
MaxUuid == 3
\* how many salts common.randomString(16) hands out in one behaviour
MaxSalt == 2
\* how many times a stored password may have gone through hash.md5
MaxHashDepth == 2

(* ------------------------------ inputs -------------------------------- *)
\* the ids users are stored under (already lower-cased)
Ids == {"al", "bob"}
\* the ids as a URL may spell them
RawIds == Ids \cup {"Bob"}
\* the order in which a view lists the documents (by document id)
IdOrder == <<"al", "bob">>
\* an invite code a client writes into a request body (never one of uuid's)
ClientCode == MaxUuid + 1
\* a well-formed and a malformed e-mail address
GoodEmail == "al@example.com"
BadEmail == "not-an-email"
\* the plaintext passwords clients send
Plaintexts == {"pw1"}
\* the plaintext a password change sends
NewPlaintext == "pw2"

NoDoc == [f \in {} |-> ""]
Has(d, f) == f \in DOMAIN d
Set(d, f, v) == (f :> v) @@ d
\* JavaScript truthiness of a string or number field
TruthyStr(d, f) == Has(d, f) /\ d[f] # ""
TruthyNum(d, f) == Has(d, f) /\ d[f] # 0

\* a password value: the plaintext `plain` run through hash.md5 once for
\* every salt of `salts`, in order (no salt: the plaintext itself)
Plain(p) == [plain |-> p, salts |-> <<>>]

\* an id taken as it is spelled
LowerNot(id) == IF id = "Bob" THEN "Bob" ELSE id

\* sanitize('lower') of the _id property
Lower(id) == IF id = "Bob" THEN "bob" ELSE id

(* ------------------------------ state --------------------------------- *)
VARIABLES
  requireActivation,  \* app.config.get('users:require-activation')
  nullKeyFallsBack,   \* the store writes an update without a key under the document's _id
  store,              \* the documents of resource User, by document id
  nextUuid,           \* the next code uuid.v4() returns
  nextSalt,           \* the next salt common.randomString(16) returns
  plainOf,            \* history: the plaintext last supplied for each stored id
  consumed,           \* history: the codes a confirm call has succeeded with
  issued,             \* history: per id, the tokens issued and not yet revoked
  last,               \* the last request and its response
  calls               \* the confirm calls followed step by step, by slot

vars == <<requireActivation, nullKeyFallsBack, store, nextUuid, nextSalt, plainOf,
          consumed, issued, last, calls>>
\* what no request changes
config == <<requireActivation, nullKeyFallsBack>>

\* the response record of a request
Response(op, caller, id, code, err, http, user, mails, available) ==
  [op |-> op, caller |-> caller, id |-> id, code |-> code, err |-> err,
   http |-> http, user |-> user, mails |-> mails, available |-> available,
   token |-> "", tokens |-> NoDoc]

(* ------------------------ hash and hook ------------------------------- *)
\* hash.md5(data, salt): a keyed digest, collision free
md5(data, salt) == [plain |-> data.plain, salts |-> Append(data.salts, salt)]

\* user._id && (user.username = user._id)
HookUsername(user) ==
  IF TruthyStr(user, "_id") THEN Set(user, "username", user["_id"]) ELSE user

\* the hook never drawing a salt of its own
HookNeedsNoSalt(method, user) == method # method /\ Has(user, "password-salt")

\* does the hook draw a random salt for this object
HookNeedsSalt(method, user) ==
  (method = "create" \/ Has(user, "password")) /\ ~TruthyNum(user, "password-salt")

\* the password block of the hook; rnd is what common.randomString(16) gives
HookPassword(method, user, rnd) ==
  IF method = "create" \/ Has(user, "password")
  THEN LET salt == IF TruthyNum(user, "password-salt") THEN user["password-salt"] ELSE rnd
           pw   == IF Has(user, "password") THEN user["password"] ELSE Plain("")
       IN  Set(Set(user, "password-salt", salt), "password", md5(pw, salt))
  ELSE user

\* the activation block taking a confirmation for a new sign-up
HookActivationOnStatus(user, code) ==
  IF requireActivation \/ Has(user, "status")
  THEN Set(Set(user, "state", "new"), "inviteCode", code)
  ELSE Set(user, "state", "active")

\* the activation block of the hook; code is what uuid.v4() gives
HookActivation(user, code) ==
  IF requireActivation
  THEN Set(Set(user, "state", "new"), "inviteCode", code)
  ELSE Set(user, "state", "active")

\* self.before(method, ...) for method in {create, update}
BeforeHook(method, user, rnd, code) ==
  HookActivation(HookPassword(method, HookUsername(user), rnd), code)

\* the hook can run: the generators have values left, the digest is in bounds
HookInBounds(method, user) ==
  /\ requireActivation => nextUuid <= MaxUuid
  /\ HookNeedsSalt(method, user) => nextSalt <= MaxSalt
  /\ Has(user, "password") => Len(user["password"].salts) < MaxHashDepth

\* the generators after the hook has run on user
UuidAfter == IF requireActivation THEN nextUuid + 1 ELSE nextUuid
SaltAfter(method, user) == IF HookNeedsSalt(method, user) THEN nextSalt + 1 ELSE nextSalt

(* ------------------------------ store --------------------------------- *)
\* the store with doc saved under key (the document id is its key)
Saved(key, doc) == [k \in DOMAIN store \cup {key} |->
                      IF k = key THEN Set(doc, "_id", key) ELSE store[k]]
\* the store without key
Removed(key) == [k \in DOMAIN store \ {key} |-> store[k]]
\* update merges the (hooked) object into the stored document
Merged(key, obj) == obj @@ store[key]

\* format: 'email', required: true
ValidEmail(data) == Has(data, "email") /\ data["email"] = GoodEmail

\* a slot no confirm call has taken yet.  phase: "idle", then "lookup"
\* (User.byInviteCode under way), "update" (User.update under way), "mail"
\* (userMailer.sendConfirm under way), and "done" once the callback was invoked
\* or "thrown" when the call threw; target: the user read, then the user handed
\* to the callback; raced: another call with the same code was under way
IdleCall == [phase |-> "idle", this |-> "", username |-> "", code |-> 0, target |-> NoDoc,
             callbacks |-> 0, err |-> "", mails |-> <<>>, raced |-> FALSE]

Init ==
  /\ calls = [s \in {1, 2} |-> IdleCall]
  /\ requireActivation \in BOOLEAN
  /\ nullKeyFallsBack \in BOOLEAN
  /\ store = NoDoc
  /\ nextUuid = 1
  /\ nextSalt = 1
  /\ plainOf = NoDoc
  /\ consumed = {}
  /\ issued = NoDoc
  /\ last = Response("init", "", "", 0, "", 0, NoDoc, <<>>, FALSE)

(* ------------------------------ /users -------------------------------- *)
\* the bodies of POST /users/:id: without an e-mail address, with a malformed
\* one, and the well-formed ones
CreateBodies ==
  {NoDoc, "email" :> BadEmail} \cup
  { ("email" :> GoodEmail) @@ p @@ c :
      p \in {NoDoc} \cup {"password" :> Plain(x) : x \in Plaintexts},
      c \in {NoDoc, "inviteCode" :> ClientCode} }

\* Create: POST /users/:id; hasBody is FALSE for a request without a body
Create(id, hasBody, body, storeFails) ==
  LET data   == Set(body, "_id", Lower(id))
      key    == data["_id"]
      hooked == BeforeHook("create", data, nextSalt, nextUuid)
      reply(err, http) == Response("create", "", id, 0, err, http, NoDoc, <<>>, FALSE)
  IN  IF ~hasBody
      THEN /\ last' = reply("Body required", 400)
           /\ UNCHANGED <<config, store, nextUuid, nextSalt, plainOf, consumed, issued>>
      ELSE IF ~ValidEmail(data) \/ key \in DOMAIN store \/ storeFails
      THEN /\ last' = reply(IF ~ValidEmail(data) THEN "validation"
                            ELSE IF key \in DOMAIN store THEN "conflict"
                            ELSE "backend", 500)
           /\ UNCHANGED <<config, store, nextUuid, nextSalt, plainOf, consumed, issued>>
      ELSE /\ HookInBounds("create", data)
           /\ store' = Saved(key, hooked)
           /\ nextUuid' = UuidAfter
           /\ nextSalt' = SaltAfter("create", data)
           /\ plainOf' = Set(plainOf, key,
                             IF Has(body, "password") THEN body["password"].plain ELSE "")
           /\ issued' = Set(issued, key, NoDoc)
           /\ last' = reply("", 201)
           /\ UNCHANGED <<config, consumed>>

CreateAct ==
  \E id \in RawIds :
    \/ Create(id, FALSE, NoDoc, FALSE)
    \/ Create(id, TRUE, "email" :> GoodEmail, TRUE)
    \/ \E body \in CreateBodies : Create(id, TRUE, body, FALSE)

\* the bodies of PUT /users/:id
UpdateBodies ==
  { p @@ e @@ i :
      p \in {NoDoc, "password" :> Plain(NewPlaintext)},
      e \in {NoDoc, "email" :> GoodEmail},
      i \in {NoDoc, "_id" :> IdOrder[1], "username" :> IdOrder[1]} }

\* User.update(key, obj): the hook, then the merge into the stored document
UpdateStore(key, obj) ==
  /\ HookInBounds("update", obj)
  /\ store' = Saved(key, Merged(key, BeforeHook("update", obj, nextSalt, nextUuid)))
  /\ nextUuid' = UuidAfter
  /\ nextSalt' = SaltAfter("update", obj)

\* Update: PUT /users/:id
Update(id, body, storeFails) ==
  LET reply(err, http) == Response("update", "", id, 0, err, http, NoDoc, <<>>, FALSE)
  IN  IF id \notin DOMAIN store \/ storeFails
      THEN /\ last' = reply(IF storeFails THEN "backend" ELSE "not_found", 500)
           /\ UNCHANGED <<config, store, nextUuid, nextSalt, plainOf, consumed, issued>>
      ELSE /\ UpdateStore(id, body)
           /\ plainOf' = IF Has(body, "password")
                         THEN Set(plainOf, id, body["password"].plain) ELSE plainOf
           /\ last' = reply("", 204)
           /\ UNCHANGED <<config, consumed, issued>>

UpdateAct ==
  \E id \in Ids :
    \/ Update(id, NoDoc, TRUE)
    \/ \E body \in UpdateBodies : Update(id, body, FALSE)

\* Destroy: DELETE /users/:id
Destroy(id, storeFails) ==
  LET reply(err, http) == Response("destroy", "", id, 0, err, http, NoDoc, <<>>, FALSE)
  IN  IF id \notin DOMAIN store \/ storeFails
      THEN /\ last' = reply(IF storeFails THEN "backend" ELSE "not_found", 500)
           /\ UNCHANGED <<config, store, nextUuid, nextSalt, plainOf, consumed, issued>>
      ELSE /\ store' = Removed(id)
           /\ plainOf' = [k \in DOMAIN plainOf \ {id} |-> plainOf[k]]
           /\ issued' = [k \in DOMAIN issued \ {id} |-> issued[k]]
           /\ last' = reply("", 200)
           /\ UNCHANGED <<config, nextUuid, nextSalt, consumed>>

DestroyAct ==
  \E id \in Ids, storeFails \in BOOLEAN : Destroy(id, storeFails)

\* User.get(id): the error of the store, "" when the document is found
GetError(id, storeFails) ==
  IF storeFails THEN "backend" ELSE IF id \notin DOMAIN store THEN "not_found" ELSE ""

\* available, taking every error of the store for 'not found'
availableOnAnyError(username, storeFails) ==
  IF GetError(username, storeFails) # "" THEN <<"", TRUE>> ELSE <<"", FALSE>>

\* User.available(username): <<err, available>> handed to the callback
available(username, storeFails) ==
  LET err == GetError(username, storeFails)
  IN  IF err = "not_found" THEN <<"", TRUE>>
      ELSE IF err # "" THEN <<err, FALSE>> ELSE <<"", FALSE>>

\* Check: GET /users/:id/available, served without authentication
Available(id, storeFails) ==
  LET got == available(id, storeFails)
  IN  /\ last' = Response("available", "", id, 0, got[1],
                          IF got[1] # "" THEN 500 ELSE 200, NoDoc, <<>>, got[2])
      /\ UNCHANGED <<config, store, nextUuid, nextSalt, plainOf, consumed, issued>>

AvailableAct ==
  \E id \in Ids, storeFails \in BOOLEAN : Available(id, storeFails)

(* ------------------------------ confirm ------------------------------- *)
\* the ids whose document the byInviteCode view emits under key code
CodeHolders(code) ==
  SelectSeq(IdOrder, LAMBDA k : k \in DOMAIN store /\ TruthyNum(store[k], "inviteCode")
                                /\ store[k]["inviteCode"] = code)
\* User.byInviteCode(code): the documents found, in view order
byInviteCode(code) == [n \in 1..Len(CodeHolders(code)) |-> store[CodeHolders(code)[n]]]

\* the invite codes a request may carry: none (0), one uuid.v4() has issued,
\* one a stored user holds, or one the client made up
Codes == {0, ClientCode} \cup {c \in 1..MaxUuid : c < nextUuid}
           \cup {store[k]["inviteCode"] : k \in {j \in DOMAIN store : Has(store[j], "inviteCode")}}

\* the key User.update(username, target) writes under.  Without a username the
\* key is null: the store either rejects it ("") or falls back to the
\* document's own _id.
UpdateKey(username, target) ==
  IF username # "" THEN username ELSE IF nullKeyFallsBack THEN target["_id"] ELSE ""

\* how a confirm call ends: the callback's arguments and the mails sent
ConfirmReply(op, this, username, code, err, user, mails) ==
  /\ last' = Response(op, this, username, code, err,
                      IF op = "confirm" THEN 0 ELSE IF err # "" THEN 400 ELSE 200,
                      user, mails, FALSE)
  /\ consumed' = IF err = "" /\ code # 0 /\ mails = <<>> THEN consumed \cup {code}
                 ELSE consumed
  /\ UNCHANGED <<config, plainOf, issued>>

\* function updateStatus(target, state) of confirm
updateStatus(op, this, username, code, target, state) ==
  LET t      == Set(target, "status", state)
      hooked == BeforeHook("update", t, nextSalt, nextUuid)
      key    == UpdateKey(username, t)
  IN    \/ /\ key \notin DOMAIN store
           /\ ConfirmReply(op, this, username, code, "not_found", NoDoc, <<>>)
           /\ UNCHANGED <<store, nextUuid, nextSalt>>
        \/ /\ key \in DOMAIN store
           /\ ConfirmReply(op, this, username, code, "backend", NoDoc, <<>>)
           /\ UNCHANGED <<store, nextUuid, nextSalt>>
        \/ /\ key \in DOMAIN store
           /\ UpdateStore(key, t)
           /\ IF t["status"] = "pending"
              THEN \E mailFails \in BOOLEAN :
                     ConfirmReply(op, this, username, code,
                                  IF mailFails THEN "mail" ELSE "",
                                  IF mailFails THEN NoDoc ELSE hooked,
                                  <<hooked["_id"]>>)
              ELSE ConfirmReply(op, this, username, code, "", hooked, <<>>)

\* User.prototype.confirm(username, creds, callback), called on the stored
\* user `this`; code is creds.inviteCode.  The name `current` of its last
\* branch is bound nowhere in the file: it stands for any stored user.
confirm(op, this, username, code) ==
  \/ /\ username = "" /\ code = 0
     /\ ConfirmReply(op, this, username, code, "Invalid Invite Code", NoDoc, <<>>)
     /\ UNCHANGED <<store, nextUuid, nextSalt>>
  \/ /\ (username = "" \/ username = store[this]["username"]) /\ code # 0
     /\ \/ /\ ConfirmReply(op, this, username, code, "backend", NoDoc, <<>>)
           /\ UNCHANGED <<store, nextUuid, nextSalt>>
        \/ /\ Len(byInviteCode(code)) = 0
           /\ ConfirmReply(op, this, username, code, "Invalid Invite Code", NoDoc, <<>>)
           /\ UNCHANGED <<store, nextUuid, nextSalt>>
        \/ /\ Len(byInviteCode(code)) > 0
           /\ updateStatus(op, this, username, code, byInviteCode(code)[1], "active")
  \/ /\ ~(username = "" /\ code = 0)
     /\ ~((username = "" \/ username = store[this]["username"]) /\ code # 0)
     /\ \E current \in DOMAIN store :
          updateStatus(op, this, username, code, store[current], "pending")

\* a call of the two-argument form, confirm(creds, callback): username = null
ConfirmAct ==
  \E this \in DOMAIN store, code \in Codes : confirm("confirm", this, "", code)

\* Activate user account: POST /users/:id/confirm.  caller is req.user after
\* app.basicAuth ("" when the authentication set none: req.user.confirm throws)
ConfirmRoute(caller, id, code) ==
  IF caller = ""
  THEN /\ last' = Response("confirmRoute", "", id, code, "TypeError", 0, NoDoc, <<>>, FALSE)
       /\ UNCHANGED <<config, store, nextUuid, nextSalt, plainOf, consumed, issued>>
  ELSE confirm("confirmRoute", caller, id, code)

ConfirmRouteAct ==
  \E caller \in DOMAIN store \cup {""}, id \in Ids, code \in Codes :
    ConfirmRoute(caller, id, code)

(* ----------------------- confirm, step by step ------------------------ *)
\* The same confirm, followed through its asynchronous steps: the call itself,
\* the answer of User.byInviteCode, the answer of User.update and the answer
\* of userMailer.sendConfirm.  Other requests run between the steps.
\* two calls are followed at a time
Slots == {1, 2}
\* the calls whose User.update is under way, and the calls under way
Updating == {r \in Slots : calls[r].phase = "update"}
InFlight == {r \in Slots : calls[r].phase \in {"lookup", "update", "mail"}}

\* uuid.v4() has a code left for one more update and for every update under way
UuidsLeft == requireActivation => nextUuid + Cardinality(Updating) <= MaxUuid
\* User.update(username, target) can be followed to its answer
UpdateInBounds(target) ==
  /\ Has(target, "password") => Len(target["password"].salts) < MaxHashDepth
  /\ UuidsLeft

\* call s as it starts
Started(this, username, code, phase, target) ==
  [IdleCall EXCEPT !.phase = phase, !.this = this, !.username = username,
                   !.code = code, !.target = target]
\* the calls after the callback of call s was invoked: callback(err) with an
\* error, callback(null, user) without; the slot keeps both arguments
Called(s, err, user, mails) ==
  [calls EXCEPT ![s].phase = "done", ![s].callbacks = @ + 1, ![s].err = err,
                ![s].mails = mails, ![s].target = user]
\* what the steps of a call leave alone
CallFrame == UNCHANGED <<config, plainOf, consumed, issued, last>>

\* confirm(username, creds, callback) up to its first asynchronous call.
\* hasCreds is FALSE when creds is undefined (a request without a body): reading
\* creds.inviteCode then throws, and the call is over without a callback.
ConfirmBegin(s, this, username, hasCreds, code) ==
  LET own    == username = "" \/ username = store[this]["username"]
      throws == ~hasCreds /\ own
  IN  /\ calls[s].phase = "idle"
      /\ \A r \in Slots : r < s => calls[r].phase # "idle"
      /\ \/ /\ throws
            /\ calls' = [calls EXCEPT ![s] = Started(this, username, code, "thrown", NoDoc)]
         \/ /\ ~throws /\ username = "" /\ code = 0
            /\ calls' = [calls EXCEPT ![s] =
                           [Started(this, username, code, "done", NoDoc)
                              EXCEPT !.callbacks = 1, !.err = "Invalid Invite Code"]]
         \/ /\ ~throws /\ own /\ code # 0
            /\ LET rivals == {r \in InFlight : calls[r].code = code}
               IN  calls' = [r \in Slots |->
                               IF r = s THEN [Started(this, username, code, "lookup", NoDoc)
                                                EXCEPT !.raced = rivals # {}]
                               ELSE IF r \in rivals THEN [calls[r] EXCEPT !.raced = TRUE]
                               ELSE calls[r]]
         \/ /\ ~throws
            /\ ~(username = "" /\ code = 0)
            /\ ~(own /\ code # 0)
            /\ \E current \in DOMAIN store :
                 /\ UpdateInBounds(store[current])
                 /\ calls' = [calls EXCEPT ![s] =
                                Started(this, username, code, "update",
                                        Set(store[current], "status", "pending"))]
      /\ CallFrame
      /\ UNCHANGED <<store, nextUuid, nextSalt>>

ConfirmBeginAct ==
  \E s \in Slots, this \in DOMAIN store, username \in {""} \cup Ids :
    \/ \E code \in Codes : ConfirmBegin(s, this, username, TRUE, code)
    \/ ConfirmBegin(s, this, username, FALSE, 0)

\* the callback of User.byInviteCode(creds.inviteCode, ...)
ConfirmLookupDone(s) ==
  LET c == calls[s]
      users == byInviteCode(c.code)
  IN  /\ c.phase = "lookup"
      /\ \/ calls' = Called(s, "backend", NoDoc, <<>>)
         \/ /\ Len(users) = 0
            /\ calls' = Called(s, "Invalid Invite Code", NoDoc, <<>>)
         \/ /\ Len(users) > 0
            /\ UpdateInBounds(users[1])
            /\ calls' = [calls EXCEPT ![s].phase = "update",
                                      ![s].target = Set(users[1], "status", "active")]
      /\ CallFrame
      /\ UNCHANGED <<store, nextUuid, nextSalt>>

ConfirmLookupDoneAct == \E s \in Slots : ConfirmLookupDone(s)

\* updateStatus sending the confirmation before it looks at the update's error
ConfirmUpdateDoneMailingFirst(s) ==
  LET c      == calls[s]
      t      == c.target
      key    == UpdateKey(c.username, t)
      hooked == BeforeHook("update", t, nextSalt, nextUuid)
      sent   == IF t["status"] = "pending" THEN <<t["_id"]>> ELSE <<>>
  IN  /\ c.phase = "update"
      /\ \/ /\ key \notin DOMAIN store
            /\ calls' = Called(s, "not_found", NoDoc, sent)
            /\ UNCHANGED <<store, nextUuid, nextSalt>>
         \/ /\ key \in DOMAIN store
            /\ calls' = Called(s, "backend", NoDoc, sent)
            /\ UNCHANGED <<store, nextUuid, nextSalt>>
         \/ /\ key \in DOMAIN store
            /\ UpdateStore(key, t)
            /\ calls' = IF t["status"] = "pending"
                        THEN [calls EXCEPT ![s].phase = "mail", ![s].target = hooked,
                                           ![s].mails = sent]
                        ELSE Called(s, "", hooked, <<>>)
      /\ CallFrame

\* the callback of User.update(username, target, ...) in updateStatus
ConfirmUpdateDone(s) ==
  LET c      == calls[s]
      t      == c.target
      key    == UpdateKey(c.username, t)
      hooked == BeforeHook("update", t, nextSalt, nextUuid)
  IN  /\ c.phase = "update"
      /\ \/ /\ key \notin DOMAIN store
            /\ calls' = Called(s, "not_found", NoDoc, <<>>)
            /\ UNCHANGED <<store, nextUuid, nextSalt>>
         \/ /\ key \in DOMAIN store
            /\ calls' = Called(s, "backend", NoDoc, <<>>)
            /\ UNCHANGED <<store, nextUuid, nextSalt>>
         \/ /\ key \in DOMAIN store
            /\ UpdateStore(key, t)
            /\ calls' = IF t["status"] = "pending"
                        THEN [calls EXCEPT ![s].phase = "mail", ![s].target = hooked,
                                           ![s].mails = <<hooked["_id"]>>]
                        ELSE Called(s, "", hooked, <<>>)
      /\ CallFrame

ConfirmUpdateDoneAct == \E s \in Slots : ConfirmUpdateDone(s)

\* the callback of userMailer.sendConfirm(target, ...)
ConfirmMailDone(s) ==
  LET c == calls[s]
  IN  /\ c.phase = "mail"
      /\ \/ calls' = Called(s, "mail", NoDoc, c.mails)
         \/ calls' = Called(s, "", c.target, c.mails)
      /\ CallFrame
      /\ UNCHANGED <<store, nextUuid, nextSalt>>

ConfirmMailDoneAct == \E s \in Slots : ConfirmMailDone(s)

(* ------------------------------ tokens -------------------------------- *)
\* the administrators (charlie of the API test)
Admins == {IdOrder[1]}
\* the token names a request gives, the names the server makes up, the secrets
TokenNames == {"test-token", "seeded"}
GeneratedNames == {"generated"}
Secrets == {"s1", "s2"}
NotAuthorized == "Not authorized to modify users"

\* the gate letting every authenticated actor through
AuthorizedAnyone(actor, target) == actor = actor /\ target = target

\* the gate of the token routes: the owner, or an administrator
Authorized(actor, target) == actor = target \/ actor \in Admins

\* the apiTokens mapping of a stored user
TokensOf(id) == IF Has(store[id], "apiTokens") THEN store[id]["apiTokens"] ELSE NoDoc

TokenResponse(op, actor, target, err, http, token, tokens) ==
  [Response(op, actor, target, 0, err, http, NoDoc, <<>>, FALSE)
     EXCEPT !.token = token, !.tokens = tokens]

\* a token request that changes nothing
TokenRefused(op, actor, target, err, http, token) ==
  /\ last' = TokenResponse(op, actor, target, err, http, token, NoDoc)
  /\ UNCHANGED <<config, store, nextUuid, nextSalt, plainOf, consumed, issued>>

\* a removal that removes nothing
WithoutNothing(tokens, name) == [n \in DOMAIN tokens \ ({name} \ {name}) |-> tokens[n]]

\* the mapping without name
WithoutToken(tokens, name) == [n \in DOMAIN tokens \ {name} |-> tokens[n]]

\* PUT /users/:id/tokens/:name and POST /users/:id/tokens (the name made up)
IssueToken(actor, target, name, secret) ==
  IF ~Authorized(actor, target) THEN TokenRefused("issueToken", actor, target, NotAuthorized, 403, name)
  ELSE IF target \notin DOMAIN store THEN TokenRefused("issueToken", actor, target, "not_found", 500, name)
  ELSE IF name \in DOMAIN TokensOf(target) THEN TokenRefused("issueToken", actor, target, "DuplicateToken", 400, name)
  ELSE /\ UpdateStore(target, "apiTokens" :> Set(TokensOf(target), name, secret))
       /\ issued' = Set(issued, target, Set(issued[target], name, secret))
       /\ last' = TokenResponse("issueToken", actor, target, "", 201, name, name :> secret)
       /\ UNCHANGED <<config, plainOf, consumed>>

IssueTokenAct ==
  \E actor \in DOMAIN store, target \in Ids, secret \in Secrets :
    \/ \E name \in TokenNames : IssueToken(actor, target, name, secret)
    \/ \E name \in GeneratedNames :
         /\ target \in DOMAIN store => name \notin DOMAIN TokensOf(target)
         /\ IssueToken(actor, target, name, secret)

\* DELETE /users/:id/tokens/:name
RevokeToken(actor, target, name) ==
  IF ~Authorized(actor, target) THEN TokenRefused("revokeToken", actor, target, NotAuthorized, 403, name)
  ELSE IF target \notin DOMAIN store THEN TokenRefused("revokeToken", actor, target, "not_found", 500, name)
  ELSE IF name \notin DOMAIN TokensOf(target) THEN TokenRefused("revokeToken", actor, target, "NotFound", 500, name)
  ELSE /\ UpdateStore(target, "apiTokens" :> WithoutToken(TokensOf(target), name))
       /\ issued' = Set(issued, target, WithoutToken(issued[target], name))
       /\ last' = TokenResponse("revokeToken", actor, target, "", 201, name, NoDoc)
       /\ UNCHANGED <<config, plainOf, consumed>>

RevokeTokenAct ==
  \E actor \in DOMAIN store, target \in Ids, name \in TokenNames \cup GeneratedNames :
    RevokeToken(actor, target, name)

\* GET /users/:id/tokens
ListTokens(actor, target) ==
  IF ~Authorized(actor, target) THEN TokenRefused("listTokens", actor, target, NotAuthorized, 403, "")
  ELSE IF target \notin DOMAIN store THEN TokenRefused("listTokens", actor, target, "not_found", 500, "")
  ELSE /\ last' = TokenResponse("listTokens", actor, target, "", 200, "", TokensOf(target))
       /\ UNCHANGED <<config, store, nextUuid, nextSalt, plainOf, consumed, issued>>

ListTokensAct ==
  \E actor \in DOMAIN store, target \in Ids : ListTokens(actor, target)

\* the users API and the confirmation
Next ==
  \/ CreateAct /\ UNCHANGED calls
  \/ UpdateAct /\ UNCHANGED calls
  \/ DestroyAct /\ UNCHANGED calls
  \/ AvailableAct /\ UNCHANGED calls
  \/ ConfirmAct /\ UNCHANGED calls
  \/ ConfirmRouteAct /\ UNCHANGED calls

Spec == Init /\ [][Next]_vars

\* the users API alone
NextUsers ==
  \/ CreateAct /\ UNCHANGED calls
  \/ UpdateAct /\ UNCHANGED calls
  \/ DestroyAct /\ UNCHANGED calls
  \/ AvailableAct /\ UNCHANGED calls

SpecUsers == Init /\ [][NextUsers]_vars

\* the seeded database of the token API test: every id is a user, created
\* through the hook by an earlier run (its invite codes are none of this run's
\* uuids), and the administrator holds the token "seeded"
SeededTokens(id) == IF id \in Admins THEN "seeded" :> "s1" ELSE NoDoc
SeededUser(n) ==
  LET data == ("_id" :> IdOrder[n]) @@ ("email" :> GoodEmail) @@ ("password" :> Plain("1234"))
      doc  == BeforeHook("create", data, n, ClientCode + n)
  IN  IF DOMAIN SeededTokens(IdOrder[n]) # {} THEN Set(doc, "apiTokens", SeededTokens(IdOrder[n])) ELSE doc

InitSeeded ==
  /\ calls = [s \in {1, 2} |-> IdleCall]
  /\ requireActivation \in BOOLEAN
  /\ nullKeyFallsBack = FALSE
  /\ store = [k \in Ids |-> SeededUser(CHOOSE n \in 1..Len(IdOrder) : IdOrder[n] = k)]
  /\ nextUuid = 1
  /\ nextSalt = Len(IdOrder) + 1
  /\ plainOf = [k \in Ids |-> "1234"]
  /\ consumed = {}
  /\ issued = [k \in Ids |-> SeededTokens(k)]
  /\ last = Response("init", "", "", 0, "", 0, NoDoc, <<>>, FALSE)

\* the token routes over the seeded users
NextTokens ==
  \/ IssueTokenAct /\ UNCHANGED calls
  \/ RevokeTokenAct /\ UNCHANGED calls
  \/ ListTokensAct /\ UNCHANGED calls

SpecTokens == InitSeeded /\ [][NextTokens]_vars

\* the same seeded users, on a store of either kind
InitConfirm ==
  /\ calls = [s \in {1, 2} |-> IdleCall]
  /\ requireActivation \in BOOLEAN
  /\ nullKeyFallsBack \in BOOLEAN
  /\ store = [k \in Ids |-> SeededUser(CHOOSE n \in 1..Len(IdOrder) : IdOrder[n] = k)]
  /\ nextUuid = 1
  /\ nextSalt = Len(IdOrder) + 1
  /\ plainOf = [k \in Ids |-> "1234"]
  /\ consumed = {}
  /\ issued = [k \in Ids |-> SeededTokens(k)]
  /\ last = Response("init", "", "", 0, "", 0, NoDoc, <<>>, FALSE)

\* confirm calls of the seeded users, step by step
NextCalls ==
  \/ ConfirmBeginAct
  \/ ConfirmLookupDoneAct
  \/ ConfirmUpdateDoneAct
  \/ ConfirmMailDoneAct

SpecCalls == InitConfirm /\ [][NextCalls]_vars

\* the store and the mailer answer every call
SpecCallsFair ==
  /\ SpecCalls
  /\ WF_vars(ConfirmLookupDoneAct)
  /\ WF_vars(ConfirmUpdateDoneAct)
  /\ WF_vars(ConfirmMailDoneAct)

(* ------------------------------ claims -------------------------------- *)
ConfirmOps == {"confirm", "confirmRoute"}
\* the request l is a confirm on the self-confirmation path: no target
\* username, or the caller's own
SelfConfirm(l) == l.op \in ConfirmOps /\ l.caller # "" /\ (l.id = "" \/ l.id = l.caller)
\* the stored users who hold invite code c
HeldBy(c) == {k \in DOMAIN store : TruthyNum(store[k], "inviteCode") /\ store[k]["inviteCode"] = c}

\* C1: after a successful create, with activation required the stored user has
\* state "new" and a non-empty inviteCode no other stored user has; without it
\* the stored user has state "active" and no inviteCode.
C1_CreateSetsStateAndInviteCode ==
  (last.op = "create" /\ last.err = "") =>
    LET key == Lower(last.id)
        u   == store[key]
    IN  IF requireActivation
        THEN /\ u["state"] = "new"
             /\ TruthyNum(u, "inviteCode")
             /\ \A k \in DOMAIN store \ {key} :
                  ~(Has(store[k], "inviteCode") /\ store[k]["inviteCode"] = u["inviteCode"])
        ELSE u["state"] = "active" /\ ~Has(u, "inviteCode")

\* C2: a self-confirmation that supplies the invite code a stored, unconfirmed
\* user holds (the store answering) succeeds, leaves that user stored with state
\* "active" and no inviteCode, returns that user and sends no mail.
C2_ConfirmByCodeActivates ==
  [][ ( /\ SelfConfirm(last') /\ last'.code # 0 /\ last'.err # "backend"
        /\ \E h \in HeldBy(last'.code) : store[h]["state"] # "active" )
      => \E h \in HeldBy(last'.code) :
           /\ last'.err = "" /\ last'.mails = <<>>
           /\ h \in DOMAIN store'
           /\ store'[h]["state"] = "active"
           /\ ~TruthyNum(store'[h], "inviteCode")
           /\ last'.user = store'[h] ]_vars

\* C3: a self-confirmation without an invite code, or with a code no stored
\* user holds (the store answering), fails with 'Invalid Invite Code', changes no
\* stored record and sends no mail.
C3_SelfConfirmWithoutValidCodeFails ==
  [][ ( /\ SelfConfirm(last') /\ last'.err # "backend"
        /\ (last'.code = 0 \/ HeldBy(last'.code) = {}) )
      => ( /\ last'.err = "Invalid Invite Code"
           /\ store' = store
           /\ last'.mails = <<>> ) ]_vars

\* C4: once a confirm with invite code C has succeeded, every later confirm
\* with code C and no target username (the store answering) fails with
\* 'Invalid Invite Code'.
C4_InviteCodeSingleUse ==
  [][ ( /\ last'.op = "confirm" /\ last'.id = "" /\ last'.err # "backend"
        /\ last'.code \in consumed )
      => last'.err = "Invalid Invite Code" ]_vars

\* C5: when an administrator confirms another stored user without an invite
\* code (the store answering), the target is stored with state "pending" and
\* exactly one mail goes to the target, also when the mail fails and the call
\* returns the mailer's error.
C5_AdminConfirmSetsPendingAndMails ==
  [][ ( /\ last'.op = "confirmRoute" /\ last'.caller \in Admins
        /\ last'.id # last'.caller /\ last'.code = 0
        /\ last'.id \in DOMAIN store /\ last'.err # "backend" )
      => ( /\ last'.err \in {"", "mail"}
           /\ store'[last'.id]["state"] = "pending"
           /\ last'.mails = <<last'.id>> ) ]_vars

\* C6: GET /users/:id/tokens by an actor who is neither the owner nor an
\* administrator answers 403 'Not authorized to modify users' and returns no
\* token; by the owner or an administrator, for a stored user, it answers 200.
C6_TokenListAuthorization ==
  last.op = "listTokens" =>
    IF last.caller # last.id /\ last.caller \notin Admins
    THEN last.http = 403 /\ last.err = NotAuthorized /\ last.tokens = NoDoc
    ELSE last.id \in DOMAIN store => last.http = 200 /\ last.tokens = TokensOf(last.id)

\* C6 witness: a refused listing of a stored user who has tokens
C6_Witness ==
  /\ last.op = "listTokens" /\ last.http = 403
  /\ last.id \in DOMAIN store /\ DOMAIN TokensOf(last.id) # {}

\* C7: a confirm of a stored user by an actor who is neither the target nor an
\* administrator (the store answering) fails with 'Not authorized to modify users', leaves the target's stored
\* record as it was and sends the target no mail.
C7_ConfirmByStrangerForbidden ==
  [][ ( /\ last'.op = "confirmRoute"
        /\ last'.caller \notin Admins \cup {"", last'.id}
        /\ last'.id \in DOMAIN store /\ last'.err # "backend" )
      => ( /\ last'.err = NotAuthorized
           /\ last'.id \in DOMAIN store'
           /\ store'[last'.id] = store[last'.id]
           /\ \A n \in 1..Len(last'.mails) : last'.mails[n] # last'.id ) ]_vars

\* C8: the tokens a user is stored with, and so the tokens a listing returns,
\* are exactly those issued and not yet revoked, each with a secret; a revoke
\* answers ok with the name and the name is listed no more.
C8_TokensAreIssuedNotRevoked ==
  /\ \A k \in DOMAIN store :
       /\ TokensOf(k) = issued[k]
       /\ \A n \in DOMAIN TokensOf(k) : TokensOf(k)[n] \in Secrets
  /\ (last.op = "listTokens" /\ last.err = "") => last.tokens = issued[last.id]
  /\ (last.op = "revokeToken" /\ last.err = "") =>
       last.http = 201 /\ last.token \notin DOMAIN TokensOf(last.id)
  /\ (last.op = "issueToken" /\ last.err = "") =>
       /\ last.token \in DOMAIN TokensOf(last.id)
       /\ last.tokens = last.token :> TokensOf(last.id)[last.token]

\* C8 witness: a token was revoked while another one stays listed
C8_Witness ==
  /\ last.op = "revokeToken" /\ last.err = ""
  /\ DOMAIN TokensOf(last.id) # {}

\* C9: the availability check answers 200 with available = TRUE exactly when
\* no user is stored under the id, and a store failure other than 'not found'
\* is answered as an error, never as available or taken.
C9_AvailableIffNotStored ==
  last.op = "available" =>
    /\ last.caller = ""
    /\ IF last.err = ""
       THEN last.http = 200 /\ (last.available <=> last.id \notin DOMAIN store)
       ELSE last.http = 500 /\ last.err = "backend" /\ ~last.available

\* C9 witness: the check answers 'taken' for an id that was created
C9_Witness ==
  /\ last.op = "available" /\ last.err = "" /\ ~last.available
  /\ last.id \in DOMAIN store

\* C10: every stored password is hash(p, salt), p the plaintext last supplied
\* for that user ("" if none at creation) and salt the user's stored salt; the
\* plaintext itself is never stored.
C10_PasswordIsHashOfLastPlaintext ==
  \A k \in DOMAIN store :
    /\ store[k]["password"] = md5(Plain(plainOf[k]), store[k]["password-salt"])
    /\ store[k]["password"] # Plain(plainOf[k])

\* the patch of a password change: nothing but the new plaintext
PasswordOnly == "password" :> Plain(NewPlaintext)
\* the salts the stored users have
StoredSalts == {store[k]["password-salt"] : k \in DOMAIN store}

\* C11 as stated: a successful update that supplies only a new plaintext
\* password leaves the stored salt as it was, and the stored hash is the new
\* plaintext hashed with that salt.
C11_PasswordChangeKeepsSalt ==
  [][ \A id \in Ids :
        (Update(id, PasswordOnly, FALSE) /\ last'.err = "")
        => ( /\ store'[id]["password-salt"] = store[id]["password-salt"]
             /\ store'[id]["password"] = md5(Plain(NewPlaintext), store[id]["password-salt"]) ) ]_vars

\* C11 amended: a successful update that supplies only a new plaintext
\* password replaces the stored salt by a newly generated one (no stored user
\* had it) and the stored hash is the new plaintext hashed with the new salt.
C11_PasswordChangeRotatesSalt ==
  [][ \A id \in Ids :
        (Update(id, PasswordOnly, FALSE) /\ last'.err = "")
        => ( /\ store'[id]["password-salt"] \notin StoredSalts
             /\ store'[id]["password-salt"] = nextSalt /\ nextSalt' = nextSalt + 1
             /\ store'[id]["password"] = md5(Plain(NewPlaintext), store'[id]["password-salt"]) ) ]_vars

\* C11 witness: a password change went through for a user created with another
\* password, who is now stored with a later salt than the first
C11_Witness ==
  /\ last.op = "update" /\ last.err = "" /\ last.id \in DOMAIN store
  /\ plainOf[last.id] = NewPlaintext
  /\ store[last.id]["password"].plain = NewPlaintext
  /\ store[last.id]["password-salt"] > 1

\* two spellings of one id, compared without regard to case
SameId(a, b) == a = b \/ {a, b} = {"bob", "Bob"}
\* the stored users whose id is a spelling of id
StoredAs(id) == {k \in DOMAIN store : SameId(k, id)}

\* C12: a create whose body has no e-mail address or a malformed one, or whose
\* id (compared lower-cased) is the id of a stored user, fails: no user is
\* added, and no stored user changes.
C12_CreateFailsOnBadEmailOrDuplicate ==
  [][ \A id \in RawIds, body \in CreateBodies :
        ( /\ Create(id, TRUE, body, FALSE)
          /\ (~Has(body, "email") \/ body["email"] # GoodEmail \/ StoredAs(id) # {}) )
        => ( /\ last'.err # "" /\ last'.http >= 400
             /\ store' = store ) ]_vars

\* C12 witness: a create under another spelling of a stored user's id was
\* refused, with a well-formed body
C12_Witness ==
  /\ last.op = "create" /\ last.err = "conflict"
  /\ last.id \notin DOMAIN store /\ StoredAs(last.id) # {}

\* C13: after every step each stored user's username equals its id, and no
\* step changes the id of a user who stays stored (whatever username or id the
\* patch of an update carries).
C13_UsernameIsIdAndIdIsFixed ==
  [][ /\ \A k \in DOMAIN store' : store'[k]["username"] = store'[k]["_id"]
      /\ \A k \in DOMAIN store \cap DOMAIN store' :
           store'[k]["_id"] = store[k]["_id"] ]_vars

C15_ValidationIs4xxBackendIs5xx ==
  last.op \in {"create", "update", "destroy", "confirmRoute"} =>
    /\ last.err \in {"Body required", "validation", "Invalid Invite Code"}
         => (last.http >= 400 /\ last.http < 500)
    /\ last.err \in {"backend", "mail"} => (last.http >= 500 /\ last.http < 600)

\* the store's own failures, as a confirm call hands them on
StoreErrors == {"backend", "not_found"}

\* C16: of two confirm calls with the same invite code that were under way at
\* the same time, at most one succeeds; when one has succeeded the other (the
\* store answering) has failed with 'Invalid Invite Code'.
C16_RacingConfirmsOneWinner ==
  \A r, s \in Slots :
    ( /\ r # s /\ calls[r].phase = "done" /\ calls[s].phase = "done"
      /\ calls[r].raced /\ calls[s].raced /\ calls[r].code = calls[s].code
      /\ calls[r].err = "" /\ calls[s].err \notin StoreErrors )
    => calls[s].err = "Invalid Invite Code"

\* C17: a confirm by invite code that succeeds (no target username, or the
\* caller's own) has written the record of the user holding the code, under
\* that user's id, and has left every other stored record as it was.
C17_ConfirmByCodeWritesHolderOnly ==
  [][ ( /\ SelfConfirm(last') /\ last'.code # 0
        /\ last'.err = "" /\ last'.mails = <<>>
        /\ Len(CodeHolders(last'.code)) > 0 )
      => LET holder == CodeHolders(last'.code)[1]
         IN  /\ holder \in DOMAIN store'
             /\ store'[holder]["_id"] = holder
             /\ last'.user = store'[holder]
             /\ \A k \in DOMAIN store \ {holder} :
                  k \in DOMAIN store' /\ store'[k] = store[k] ]_vars

\* C18: a confirm call sends its confirmation mail in the step in which its
\* update is persisted, and in no other; when the update fails the call ends
\* there, its callback gets the store's error, no mail is sent and nothing is
\* written.
C18_MailOnlyAfterUpdatePersisted ==
  [][ \A s \in Slots :
        /\ calls'[s].mails # calls[s].mails
             => ( /\ calls[s].phase = "update" /\ calls[s].mails = <<>>
                  /\ UpdateStore(UpdateKey(calls[s].username, calls[s].target), calls[s].target)
                  /\ calls'[s].mails = <<calls[s].target["_id"]>> )
        /\ ( calls[s].phase = "update" /\ calls'[s].phase = "done" /\ calls'[s].err # "" )
             => ( /\ calls'[s].err \in StoreErrors
                  /\ calls'[s].callbacks = 1 /\ calls'[s].target = NoDoc
                  /\ calls'[s].mails = <<>>
                  /\ store' = store ) ]_vars

\* C18 witness: a confirmation without a code (the branch that mails) whose
\* update the store refused: it is over, with the store's error and no mail
C18_Witness ==
  \E s \in Slots :
    /\ calls[s].phase = "done" /\ calls[s].code = 0 /\ calls[s].username # ""
    /\ calls[s].err = "backend" /\ calls[s].mails = <<>>

\* C19: every confirm call that was made invokes its callback, and no call
\* invokes it twice: a call never has more than one callback behind it, a call
\* that is over has exactly one, and every call made is eventually over.
C19_CallbackExactlyOnce ==
  /\ [](\A s \in Slots :
          /\ calls[s].callbacks <= 1
          /\ calls[s].phase = "done" => calls[s].callbacks = 1)
  /\ \A s \in Slots :
       (calls[s].phase # "idle") ~> (calls[s].phase = "done" /\ calls[s].callbacks = 1)

\* the patches that change a password or an e-mail address and nothing else
PlainPatches == {b \in UpdateBodies : DOMAIN b # {} /\ DOMAIN b \subseteq {"password", "email"}}

\* C20: with activation required, a successful update of an unconfirmed user
\* that changes only the password or the e-mail address leaves the user's state
\* and inviteCode as they were, and the code still finds that user.
C20_UpdateKeepsInviteCode ==
  [][ \A id \in Ids, body \in PlainPatches :
        ( /\ requireActivation
          /\ Update(id, body, FALSE) /\ last'.err = ""
          /\ store[id]["state"] = "new" /\ TruthyNum(store[id], "inviteCode") )
        => ( /\ store'[id]["state"] = store[id]["state"]
             /\ store'[id]["inviteCode"] = store[id]["inviteCode"]
             /\ \E n \in 1..Len(byInviteCode(store[id]["inviteCode"])') :
                  (byInviteCode(store[id]["inviteCode"])')[n]["_id"] = id ) ]_vars
====
